---------------------------- MODULE Spec2Model ----------------------------
(***************************************************************************)
(* Model of comfy_commander/core.py: the dual-representation workflow      *)
(* (api_json = execution graph, gui_json = display graph), the parameter   *)
(* write with its synchronisation into widgets_values, and the node        *)
(* lookups Workflow.node / Workflow.nodes, the loaders Workflow.from_file   *)
(* and Workflow.from_image, and the submission to the ComfyUI server        *)
(* (Workflow.execute).  The server-side orchestration (queue, execute,      *)
(* execute_async, get_output_images) and MediaCollection, which core.py     *)
(* does not hold, follow the design document.                               *)
(***************************************************************************)
EXTENDS Integers, Sequences, FiniteSets, TLC

VARIABLES api_json, gui_json, last, nsets, loaded, requests, run, media

\* loaded: a Workflow object exists; requests: the HTTP requests sent so far;
\* run: the submit-and-wait call in flight; media: a MediaCollection
vars == <<api_json, gui_json, last, nsets, loaded, requests, run, media>>

\* the part of the state the workflow calls leave alone
remote == <<loaded, requests, run, media>>

(***************************************************************************)
(* Bounds of the model.                                                    *)
(***************************************************************************)
\* number of set() calls explored from a freshly constructed workflow
MaxSets == 2
\* number of set() calls explored among reads and lookups
MaxLookupSets == 1
\* number of set() calls explored on a loaded workflow
MaxLoadSets == 1
\* a call is started only while fewer requests than this have been sent
MaxRequests == 3
\* largest poll_interval and timeout of a submit-and-wait call
MaxInterval == 2
MaxTimeout == 2
\* number of artifacts a caller appends to a MediaCollection
MaxMedia == 2

(***************************************************************************)
(* Python values.  A value is a record [t, items]: an int carries its      *)
(* number, a bool 0/1, None nothing, a list its elements.                  *)
(***************************************************************************)
PyInt(n) == [t |-> "int", items |-> <<n>>]
PyBool(b) == [t |-> "bool", items |-> <<IF b THEN 1 ELSE 0>>]
PyNone == [t |-> "none", items |-> <<>>]
PyList(xs) == [t |-> "list", items |-> xs]

\* an absent optional argument (Python None passed for an Optional[str])
NONE == "<None>"

\* isinstance(value, list) and len(value) == 2
IsConnection(value) == value.t = "list" /\ Len(value.items) = 2

\* str(int) for a non-negative int
Digit == <<"0", "1", "2", "3", "4", "5", "6", "7", "8", "9">>
RECURSIVE Str(_)
Str(n) == IF n < 10 THEN Digit[n + 1] ELSE Str(n \div 10) \o Digit[(n % 10) + 1]

(***************************************************************************)
(* Dictionaries keep insertion order: api_json is a sequence of node       *)
(* entries with distinct ids, inputs a sequence of [name, value] items     *)
(* with distinct names.                                                    *)
(***************************************************************************)
ApiNode(id, class_type, has_meta, title, has_inputs, inputs) ==
    [id |-> id, class_type |-> class_type, has_meta |-> has_meta, title |-> title,
     has_inputs |-> has_inputs, inputs |-> inputs]

Item(name, value) == [name |-> name, value |-> value]

\* a display node with a "title" key
GuiNodeTitled(id, type, title, has_wv, wv) ==
    [id |-> id, type |-> type, has_title |-> TRUE, title |-> title,
     has_wv |-> has_wv, widgets_values |-> wv,
     pos |-> <<0, 0>>, size |-> <<200, 100>>, inputs |-> <<>>, outputs |-> <<>>]

\* a display node without a "title" key
GuiNode(id, type, has_wv, wv) ==
    [GuiNodeTitled(id, type, NONE, has_wv, wv) EXCEPT !.has_title = FALSE]

Gui(nodes, links) == [is_none |-> FALSE, nodes |-> nodes, links |-> links]

\* gui_json = None
GuiNone == [is_none |-> TRUE, nodes |-> <<>>, links |-> <<>>]

\* index (1-based) of the first TRUE of a sequence of tests, 0 when none
FirstIndex(hits) ==
    IF \E i \in 1..Len(hits) : hits[i]
    THEN CHOOSE i \in 1..Len(hits) : hits[i] /\ \A j \in 1..(i - 1) : ~hits[j]
    ELSE 0

\* `id in self.workflow.api_json`
InApi(api, id) == \E i \in 1..Len(api) : api[i].id = id

ApiIndex(api, id) == FirstIndex([i \in 1..Len(api) |-> api[i].id = id])

\* dict.get(name) on an inputs mapping: the value, or None
InputsGet(inputs, name) ==
    LET i == FirstIndex([j \in 1..Len(inputs) |-> inputs[j].name = name])
    IN IF i = 0 THEN PyNone ELSE inputs[i].value

\* faults of the mapping write: a new key is dropped / every write appends
InputsPut_NoInsert(inputs, name, value) ==
    LET i == FirstIndex([j \in 1..Len(inputs) |-> inputs[j].name = name])
    IN IF i = 0 THEN inputs ELSE [inputs EXCEPT ![i].value = value]

InputsPut_Append(inputs, name, value) == Append(inputs, Item(name, value))

\* fault: a new key is put in front of the existing keys
InputsPut_Prepend(inputs, name, value) ==
    LET i == FirstIndex([j \in 1..Len(inputs) |-> inputs[j].name = name])
    IN IF i = 0 THEN <<Item(name, value)>> \o inputs
       ELSE [inputs EXCEPT ![i].value = value]

\* inputs[name] = value: overwrite in place, or append a new key at the end
InputsPut(inputs, name, value) ==
    LET i == FirstIndex([j \in 1..Len(inputs) |-> inputs[j].name = name])
    IN IF i = 0 THEN Append(inputs, Item(name, value))
       ELSE [inputs EXCEPT ![i].value = value]

(***************************************************************************)
(* Node.get_property_value                                                 *)
(***************************************************************************)
get_property_value(api, id, property_name) ==
    IF InApi(api, id)
    THEN LET n == api[ApiIndex(api, id)]
         IN IF n.has_inputs THEN InputsGet(n.inputs, property_name) ELSE PyNone
    ELSE PyNone

(***************************************************************************)
(* Node.set_property_value, first half: the write into api_json.           *)
(***************************************************************************)
\* fault: the view writes into a copy of its node
ApiWrite_ToCopy(api, id, property_name, value) == api

\* fault: an entry is created for a node id that is not a key of api_json
ApiWrite_Create(api, id, property_name, value) ==
    IF InApi(api, id)
    THEN LET i == ApiIndex(api, id)
             old == IF api[i].has_inputs THEN api[i].inputs ELSE <<>>
         IN [api EXCEPT ![i].has_inputs = TRUE,
                        ![i].inputs = InputsPut(old, property_name, value)]
    ELSE Append(api, ApiNode(id, "", FALSE, NONE, TRUE, <<Item(property_name, value)>>))

\* fault: the inputs mapping is replaced by one holding the written name only
ApiWrite_Replace(api, id, property_name, value) ==
    IF InApi(api, id)
    THEN [api EXCEPT ![ApiIndex(api, id)].has_inputs = TRUE,
                     ![ApiIndex(api, id)].inputs = <<Item(property_name, value)>>]
    ELSE api

ApiWrite(api, id, property_name, value) ==
    IF InApi(api, id)
    THEN LET i == ApiIndex(api, id)
             old == IF api[i].has_inputs THEN api[i].inputs ELSE <<>>
         IN [api EXCEPT ![i].has_inputs = TRUE,
                        ![i].inputs = InputsPut(old, property_name, value)]
    ELSE api

(***************************************************************************)
(* Workflow._sync_property_to_gui                                          *)
(***************************************************************************)
\* fault: connection inputs are counted too
InputOrder_All(inputs) == [i \in 1..Len(inputs) |-> inputs[i].name]

\* the names of the non-connection inputs, in input order
InputOrder(inputs) ==
    LET kept == SelectSeq(inputs, LAMBDA e : ~IsConnection(e.value))
    IN [i \in 1..Len(kept) |-> kept[i].name]

\* input_order.index(property_name), zero-based; -1 stands for ValueError
OrderIndex(order, property_name) ==
    FirstIndex([i \in 1..Len(order) |-> order[i] = property_name]) - 1

\* fault: the adjustment is applied to position 0 as well
OffsetIndex_AtZero(class_type, property_index) ==
    IF class_type = "KSampler" /\ property_index >= 0
    THEN property_index + 1
    ELSE property_index

\* the KSampler adjustment of the position
OffsetIndex(class_type, property_index) ==
    IF class_type = "KSampler" /\ property_index > 0
    THEN property_index + 1
    ELSE property_index

\* fault: the value is inserted before the slot instead of replacing it
WriteSlot_Insert(wv, property_index, value) ==
    LET n == IF Len(wv) <= property_index THEN property_index + 1 ELSE Len(wv)
        grown == [i \in 1..n |-> IF i <= Len(wv) THEN wv[i] ELSE PyNone]
    IN SubSeq(grown, 1, property_index) \o <<value>> \o SubSeq(grown, property_index + 1, n)

\* fault: the new slots are filled with the value instead of None
WriteSlot_Fill(wv, property_index, value) ==
    LET n == IF Len(wv) <= property_index THEN property_index + 1 ELSE Len(wv)
    IN [i \in 1..n |-> IF i <= Len(wv) /\ i # property_index + 1 THEN wv[i] ELSE value]

\* grow widgets_values with None until property_index is a valid position,
\* then store value there
WriteSlot(wv, property_index, value) ==
    LET n == IF Len(wv) <= property_index THEN property_index + 1 ELSE Len(wv)
        grown == [i \in 1..n |-> IF i <= Len(wv) THEN wv[i] ELSE PyNone]
    IN [grown EXCEPT ![property_index + 1] = value]

\* index of the display node the loop stops at (first with str(id) = node_id)
GuiIndex(gui, node_id) ==
    FirstIndex([i \in 1..Len(gui.nodes) |-> Str(gui.nodes[i].id) = node_id])

\* the slot the sync writes for (node_id, property_name) given api (already
\* written) and gui; -1 when the sync writes nothing
SyncSlot(api, gui, node_id, property_name) ==
    IF gui.is_none \/ GuiIndex(gui, node_id) = 0 THEN -1
    ELSE LET has == InApi(api, node_id)
             inputs == IF has /\ api[ApiIndex(api, node_id)].has_inputs
                       THEN api[ApiIndex(api, node_id)].inputs ELSE <<>>
             ct == IF has THEN api[ApiIndex(api, node_id)].class_type ELSE NONE
             k == OrderIndex(InputOrder(inputs), property_name)
         IN IF k < 0 THEN -1 ELSE OffsetIndex(ct, k)

\* fault: a missing display node is reported as an error
SyncRaises_Strict(api, gui, node_id, property_name) ==
    IF gui.is_none THEN "AttributeError"
    ELSE IF GuiIndex(gui, node_id) = 0 THEN "KeyError"
    ELSE IF SyncSlot(api, gui, node_id, property_name) >= 0
            /\ ~gui.nodes[GuiIndex(gui, node_id)].has_wv
         THEN "KeyError"
         ELSE "none"

\* the exception the sync ends with ("none": it returns normally)
SyncRaises(api, gui, node_id, property_name) ==
    IF gui.is_none THEN "AttributeError"
    ELSE IF SyncSlot(api, gui, node_id, property_name) >= 0
            /\ ~gui.nodes[GuiIndex(gui, node_id)].has_wv
         THEN "KeyError"
         ELSE "none"

\* fault: the loop does not stop at the matching display node and writes the
\* slot of every display node that has widgets_values
SyncGui_EveryNode(api, gui, node_id, property_name, value) ==
    LET slot == SyncSlot(api, gui, node_id, property_name)
    IN IF slot < 0 \/ ~gui.nodes[GuiIndex(gui, node_id)].has_wv THEN gui
       ELSE [gui EXCEPT !.nodes =
                [h \in 1..Len(gui.nodes) |->
                    IF gui.nodes[h].has_wv
                    THEN [gui.nodes[h] EXCEPT !.widgets_values =
                             WriteSlot(gui.nodes[h].widgets_values, slot, value)]
                    ELSE gui.nodes[h]]]

\* gui_json after the sync
SyncGui(api, gui, node_id, property_name, value) ==
    LET slot == SyncSlot(api, gui, node_id, property_name)
        g == GuiIndex(gui, node_id)
    IN IF slot < 0 \/ ~gui.nodes[g].has_wv THEN gui
       ELSE [gui EXCEPT !.nodes[g].widgets_values =
                            WriteSlot(gui.nodes[g].widgets_values, slot, value)]

(***************************************************************************)
(* Lookups                                                                 *)
(***************************************************************************)
\* the ids of a sequence of api_json entries, in order
MatchingIds(kept) == [i \in 1..Len(kept) |-> kept[i].id]

\* node_data.get("_meta", {}).get("title") == title
_find_nodes_by_title(api, title) ==
    MatchingIds(SelectSeq(api, LAMBDA n : n.has_meta /\ n.title = title))

_find_nodes_by_class_type(api, class_type) ==
    MatchingIds(SelectSeq(api, LAMBDA n : n.class_type = class_type))

\* fault: a name is taken for a title
_find_nodes_by_name_AsTitle(api, name) == _find_nodes_by_title(api, name)

_find_nodes_by_name(api, name) == _find_nodes_by_class_type(api, name)

\* outcome of a lookup: the exception raised ("none": returned), the ids of
\* the returned views in order, and what the message quotes
Outcome(exc, ret, by, key, ids) ==
    [exc |-> exc, ret |-> ret, by |-> by, key |-> key, msg_ids |-> ids]

\* fault: several matches silently yield the first
Decide_First(by, key, matching_node_ids) ==
    IF Len(matching_node_ids) = 0 THEN Outcome("KeyError", <<>>, by, key, <<>>)
    ELSE Outcome("none", <<matching_node_ids[1]>>, by, key, <<>>)

\* the three-way decision shared by the name, title and class_type branches
Decide(by, key, matching_node_ids) ==
    IF Len(matching_node_ids) = 0 THEN Outcome("KeyError", <<>>, by, key, <<>>)
    ELSE IF Len(matching_node_ids) > 1
         THEN Outcome("ValueError", <<>>, by, key, matching_node_ids)
         ELSE Outcome("none", <<matching_node_ids[1]>>, by, key, <<>>)

\* fault: the criteria are tried in the opposite order
node_LastSupplied(api, id, name, title, class_type) ==
    IF class_type # NONE
    THEN Decide("class_type", class_type, _find_nodes_by_class_type(api, class_type))
    ELSE IF title # NONE THEN Decide("title", title, _find_nodes_by_title(api, title))
    ELSE IF name # NONE THEN Decide("class_type", name, _find_nodes_by_name(api, name))
    ELSE IF id # NONE
         THEN IF InApi(api, id) THEN Outcome("none", <<id>>, "id", id, <<>>)
              ELSE Outcome("KeyError", <<>>, "id", id, <<>>)
    ELSE Outcome("ValueError", <<>>, "none", NONE, <<>>)

\* Workflow.node
node(api, id, name, title, class_type) ==
    IF id # NONE
    THEN IF InApi(api, id) THEN Outcome("none", <<id>>, "id", id, <<>>)
         ELSE Outcome("KeyError", <<>>, "id", id, <<>>)
    ELSE IF name # NONE THEN Decide("class_type", name, _find_nodes_by_name(api, name))
    ELSE IF title # NONE THEN Decide("title", title, _find_nodes_by_title(api, title))
    ELSE IF class_type # NONE
         THEN Decide("class_type", class_type, _find_nodes_by_class_type(api, class_type))
    ELSE Outcome("ValueError", <<>>, "none", NONE, <<>>)

SeqToSet(s) == {s[i] : i \in 1..Len(s)}

\* fault: both criteria must match
nodes_set_Intersection(api, title, class_type) ==
    (IF title # NONE THEN SeqToSet(_find_nodes_by_title(api, title))
     ELSE SeqToSet(_find_nodes_by_class_type(api, class_type)))
    \cap
    (IF class_type # NONE THEN SeqToSet(_find_nodes_by_class_type(api, class_type))
     ELSE SeqToSet(_find_nodes_by_title(api, title)))

\* the set built by Workflow.nodes before it is turned into a list
nodes_set(api, title, class_type) ==
    (IF title # NONE THEN SeqToSet(_find_nodes_by_title(api, title)) ELSE {})
    \cup
    (IF class_type # NONE THEN SeqToSet(_find_nodes_by_class_type(api, class_type)) ELSE {})

\* the lists list(a_set) can produce: every arrangement of the set's elements
Orderings(S) ==
    {s \in [1..Cardinality(S) -> S] : \A i, j \in 1..Cardinality(S) : s[i] = s[j] => i = j}

\* fault: no criterion yields an empty list instead of an error
nodes_NoCheck(api, title, class_type) ==
    {Outcome("none", ret, "none", NONE, <<>>) :
        ret \in Orderings(nodes_set(api, title, class_type))}

\* Workflow.nodes: the outcomes the call can end with
nodes(api, title, class_type) ==
    IF title = NONE /\ class_type = NONE
    THEN {Outcome("ValueError", <<>>, "none", NONE, <<>>)}
    ELSE {Outcome("none", ret, "none", NONE, <<>>) :
             ret \in Orderings(nodes_set(api, title, class_type))}

(***************************************************************************)
(* Node: a view (id, workflow).  The model holds one workflow, so a view   *)
(* is its id; is_none marks an absent view (Optional[Node] = None).        *)
(***************************************************************************)
Node(id) == [is_none |-> FALSE, id |-> id]

NoNode == [is_none |-> TRUE, id |-> NONE]

\* fault: a node the workflow lacks is reported with the type of the first node
Node_class_type_First(api, id) ==
    IF InApi(api, id) THEN api[ApiIndex(api, id)].class_type
    ELSE IF Len(api) > 0 THEN api[1].class_type ELSE "?"

\* Node.class_type
Node_class_type(api, id) ==
    IF InApi(api, id) THEN api[ApiIndex(api, id)].class_type ELSE ""

\* fault: the title is taken from class_type
Node_title_AsClassType(api, id) == Node_class_type(api, id)

\* Node.title
Node_title(api, id) ==
    IF InApi(api, id)
    THEN LET n == api[ApiIndex(api, id)]
         IN IF n.has_meta /\ n.title # NONE THEN n.title ELSE ""
    ELSE ""

(***************************************************************************)
(* Loaders                                                                 *)
(***************************************************************************)
\* largest node id int() is asked to parse
MaxNodeId == 99

\* int(node_id): the number whose decimal form is node_id
int(s) == CHOOSE n \in 0..MaxNodeId : Str(n) = s

\* a parsed JSON file in the standard format (keys "nodes" and "links"), and
\* one in the API format (node ids as keys)
StandardFile(gui) == [has_nodes |-> TRUE, has_links |-> TRUE, gui |-> gui, api |-> <<>>]
ApiFile(api) == [has_nodes |-> FALSE, has_links |-> FALSE, gui |-> Gui(<<>>, <<>>), api |-> api]

\* the parsed metadata of an image: the keys "prompt" and "workflow"
ImageData(has_prompt, prompt, has_workflow, workflow) ==
    [has_prompt |-> has_prompt, prompt |-> prompt,
     has_workflow |-> has_workflow, workflow |-> workflow]

\* a ComfyUIServer and how the remote service answers it during one call
Server(available, convert, converted, submit, prompt_id) ==
    [present |-> TRUE, available |-> available, convert |-> convert,
     converted |-> converted, submit |-> submit, prompt_id |-> prompt_id]

\* server = None
NoServer == [present |-> FALSE, available |-> FALSE, convert |-> "error",
             converted |-> <<>>, submit |-> "error", prompt_id |-> NONE]

\* what a call produced: the exception raised ("none": returned), the
\* representations, the value returned and the requests sent, in order
Loaded(exc, api, gui, sent) == [exc |-> exc, api |-> api, gui |-> gui, sent |-> sent]

\* ComfyUIServer.is_available
is_available(server) == server.available

\* ComfyUIServer.convert_workflow
convert_workflow(server) ==
    [exc |-> IF server.convert = "ok" THEN "none" ELSE "RequestException",
     data |-> server.converted]

\* ComfyUIServer.execute_workflow
execute_workflow(server) ==
    [exc |-> IF server.submit = "ok" THEN "none" ELSE "RequestException",
     prompt_id |-> IF server.submit = "ok" THEN server.prompt_id ELSE NONE]

\* Workflow._create_minimal_api_from_gui
_create_minimal_api_from_gui(gui_data) ==
    [i \in 1..Len(gui_data.nodes) |->
        LET n == gui_data.nodes[i]
        IN ApiNode(Str(n.id), n.type, TRUE, IF n.has_title THEN n.title ELSE "",
                   TRUE, <<>>)]

\* the values of the non-connection inputs, in input order
WidgetsValues(inputs) ==
    LET kept == SelectSeq(inputs, LAMBDA e : ~IsConnection(e.value))
    IN [i \in 1..Len(kept) |-> kept[i].value]

\* Workflow._create_gui_from_api
_create_gui_from_api(api_data) ==
    Gui([i \in 1..Len(api_data) |->
            LET n == api_data[i]
            IN GuiNodeTitled(int(n.id), n.class_type,
                             IF n.has_meta /\ n.title # NONE THEN n.title ELSE "",
                             TRUE,
                             WidgetsValues(IF n.has_inputs THEN n.inputs ELSE <<>>))],
        <<>>)

\* Workflow.from_file
from_file(data, server) ==
    IF data.has_nodes /\ data.has_links
    THEN IF server.present
         THEN LET c == convert_workflow(server)
              IN Loaded(c.exc, c.data, data.gui, <<"POST /workflow/convert">>)
         ELSE Loaded("none", _create_minimal_api_from_gui(data.gui), data.gui, <<>>)
    ELSE Loaded("none", data.api, _create_gui_from_api(data.api), <<>>)

\* Workflow.from_image: an absent key reads as {}
from_image(image_data) ==
    Loaded("none",
           IF image_data.has_prompt THEN image_data.prompt ELSE <<>>,
           IF image_data.has_workflow THEN image_data.workflow ELSE Gui(<<>>, <<>>),
           <<>>)

(***************************************************************************)
(* Submission                                                              *)
(***************************************************************************)
\* what a submission produced: the exception raised ("none": returned), the
\* prompt id returned, api_json afterwards and the requests sent, in order
Submitted(exc, ret, api, sent) == [exc |-> exc, ret |-> ret, api |-> api, sent |-> sent]

\* not self.api_json or not any(node_data.get("inputs") ...)
NeedsConversion(api) ==
    \/ Len(api) = 0
    \/ ~\E i \in 1..Len(api) : api[i].has_inputs /\ Len(api[i].inputs) > 0

\* fault: an unavailable server is not reported; the workflow is sent as it is
ensure_api_format_Lenient(api, server) ==
    IF ~NeedsConversion(api) THEN Submitted("none", NONE, api, <<>>)
    ELSE IF ~is_available(server)
         THEN Submitted("none", NONE, api, <<"GET /system_stats">>)
         ELSE LET c == convert_workflow(server)
              IN Submitted(c.exc, NONE, IF c.exc = "none" THEN c.data ELSE api,
                           <<"GET /system_stats", "POST /workflow/convert">>)

\* Workflow.ensure_api_format
ensure_api_format(api, server) ==
    IF ~NeedsConversion(api) THEN Submitted("none", NONE, api, <<>>)
    ELSE IF ~is_available(server)
         THEN Submitted("ConnectionError", NONE, api, <<"GET /system_stats">>)
         ELSE LET c == convert_workflow(server)
              IN Submitted(c.exc, NONE, IF c.exc = "none" THEN c.data ELSE api,
                           <<"GET /system_stats", "POST /workflow/convert">>)

\* fault: the queue is looked at after the submission
execute_ThenPoll(api, server) ==
    LET e == ensure_api_format(api, server)
    IN IF e.exc # "none" THEN e
       ELSE LET r == execute_workflow(server)
            IN Submitted(r.exc, r.prompt_id, e.api, e.sent \o <<"POST /prompt", "GET /queue">>)

\* Workflow.execute
execute(api, server) ==
    LET e == ensure_api_format(api, server)
    IN IF e.exc # "none" THEN e
       ELSE LET r == execute_workflow(server)
            IN Submitted(r.exc, r.prompt_id, e.api, e.sent \o <<"POST /prompt">>)

(***************************************************************************)
(* Output artifacts and MediaCollection (design document, 4.3 and 4.4).    *)
(***************************************************************************)
\* ComfyOutput(data, filename, subfolder, type, node)
ComfyOutput(filename, type, node_ref) ==
    [filename |-> filename, type |-> type, node |-> node_ref]

\* one entry of the history's "outputs": a node id and its image descriptors
NodeOutput(node_id, images) == [node_id |-> node_id, images |-> images]

Image(filename, type) == [filename |-> filename, type |-> type]

\* the node reference of an artifact of node_id
OutputNode(with_workflow, node_id) ==
    IF with_workflow THEN Node(node_id) ELSE NoNode

\* ComfyUIServer.get_output_images(prompt_id, workflow): one artifact per
\* image descriptor, in the order of the history
RECURSIVE get_output_images(_, _)
get_output_images(outputs, with_workflow) ==
    IF Len(outputs) = 0 THEN <<>>
    ELSE LET o == Head(outputs)
         IN [i \in 1..Len(o.images) |->
                ComfyOutput(o.images[i].filename, o.images[i].type,
                            OutputNode(with_workflow, o.node_id))]
            \o get_output_images(Tail(outputs), with_workflow)

\* what find_by_title produced: the exception raised ("none": returned), the
\* artifact returned (as a one-element sequence) and the number of matches
Found(exc, ret, count) == [exc |-> exc, ret |-> ret, count |-> count]

\* MediaCollection.find_by_title
find_by_title(collection, api, title) ==
    LET matches == SelectSeq(collection,
                             LAMBDA a : ~a.node.is_none
                                        /\ Node_title(api, a.node.id) = title)
    IN IF Len(matches) = 0 THEN Found("KeyError", <<>>, 0)
       ELSE IF Len(matches) > 1 THEN Found("ValueError", <<>>, Len(matches))
       ELSE Found("none", <<matches[1]>>, 1)

(***************************************************************************)
(* Submit-and-wait (design document, 4.3): Created -> Submitted ->         *)
(* Polling -> Succeeded | Failed | TimedOut.                               *)
(***************************************************************************)
\* ExecutionResult(prompt_id, media, status, error_message)
ExecutionResult(prompt_id, collection, status, error_message) ==
    [is_none |-> FALSE, prompt_id |-> prompt_id, media |-> collection,
     status |-> status, error_message |-> error_message]

NoResult ==
    [is_none |-> TRUE, prompt_id |-> NONE, media |-> <<>>, status |-> NONE,
     error_message |-> NONE]

\* a submit-and-wait call: its path ("sync" / "async"), parameters, the time
\* it has waited, the exception it raised and the result it returned
Job(phase, mode, prompt_id, poll_interval, timeout, elapsed, raised, result) ==
    [phase |-> phase, mode |-> mode, prompt_id |-> prompt_id,
     poll_interval |-> poll_interval, timeout |-> timeout, elapsed |-> elapsed,
     raised |-> raised, result |-> result]

\* no call made yet
Idle == Job("Created", NONE, NONE, 0, 0, 0, "none", NoResult)

\* an exception: its class and its text (str(e))
Exception(class, text) == [class |-> class, text |-> text]

ExecutionTimeout == Exception("ExecutionTimeout", "Execution timed out")
ExecutionFailed == Exception("ExecutionFailed", "Execution failed")
RemoteRequestFailed == Exception("RemoteRequestFailed", "Request failed")

\* the answers of the remote service to one status query
StatusReply(status, outputs) == [status |-> status, outputs |-> outputs]

Terminal == {"Succeeded", "Failed", "TimedOut"}

\* fault: the timeout is never looked at
Expired_Never(job) == FALSE

\* the timeout has elapsed
Expired(job) == job.elapsed >= job.timeout

\* fault: the cooperative path lets a polling exception through
EndWith_Raise(job, phase, e) ==
    [job EXCEPT !.phase = phase, !.raised = e.class]

\* the call ends with exception e: raised on the synchronous path, captured
\* into the result on the cooperative path
EndWith(job, phase, e) ==
    IF job.mode = "sync"
    THEN [job EXCEPT !.phase = phase, !.raised = e.class]
    ELSE [job EXCEPT !.phase = phase,
                     !.result = ExecutionResult(job.prompt_id, <<>>, "error", e.text)]

\* one round of the polling loop: the job afterwards
PollOnce(job, reply) ==
    IF Expired(job) THEN EndWith(job, "TimedOut", ExecutionTimeout)
    ELSE IF reply.status = "success"
         THEN [job EXCEPT !.phase = "Succeeded",
                          !.result = ExecutionResult(job.prompt_id,
                                                     get_output_images(reply.outputs, TRUE),
                                                     "success", NONE)]
    ELSE IF reply.status = "error" THEN EndWith(job, "Failed", ExecutionFailed)
    ELSE IF reply.status = "request_failed" THEN EndWith(job, "Failed", RemoteRequestFailed)
    ELSE [job EXCEPT !.phase = "Polling", !.elapsed = job.elapsed + job.poll_interval]

\* the requests one round sends
PollRequests(job) == IF Expired(job) THEN <<>> ELSE <<"GET /history">>

\* the start of a submit-and-wait call: the submission of Workflow.execute
SubmitJob(mode, poll_interval, timeout, s) ==
    IF s.exc = "none"
    THEN Job("Submitted", mode, s.ret, poll_interval, timeout, 0, "none", NoResult)
    ELSE Job("Created", mode, NONE, poll_interval, timeout, 0, s.exc, NoResult)

(***************************************************************************)
(* Workflows a caller constructs (Workflow(api_json=..., gui_json=...)),   *)
(* the shapes the test-suite builds.                                       *)
(***************************************************************************)
Conn(producer, slot) == PyList(<<producer, slot>>)

\* image-style pair: the display graph carries the KSampler toggle slot
ImageApi ==
    << ApiNode("31", "KSampler", TRUE, "KSampler", TRUE,
               <<Item("seed", PyInt(5)), Item("model", Conn(4, 0)), Item("steps", PyInt(6))>>),
       ApiNode("6", "CLIPTextEncode", TRUE, "Positive", TRUE,
               <<Item("clip", Conn(4, 1)), Item("text", PyInt(5))>>) >>

ImageGui ==
    Gui(<< GuiNode(31, "KSampler", TRUE, <<PyInt(5), PyBool(FALSE), PyInt(6)>>),
           GuiNode(6, "CLIPTextEncode", TRUE, <<PyInt(5)>>) >>,
        <<1>>)

\* duplicates of title and class_type; one display node, as short as its
\* node's value inputs
DupApi ==
    << ApiNode("1", "KSampler", TRUE, "Sampler 1", TRUE, <<Item("seed", PyInt(5))>>),
       ApiNode("2", "KSampler", TRUE, "Sampler 2", TRUE, <<Item("seed", PyInt(6))>>),
       ApiNode("3", "KSampler", TRUE, "Sampler 1", FALSE, <<>>) >>

DupGui == Gui(<< GuiNode(2, "KSampler", TRUE, <<PyInt(6)>>) >>, <<>>)

\* a display node without widgets_values, an api node without _meta, an api
\* node without display node and a display node without api node
BareApi ==
    << ApiNode("1", "TestNode", FALSE, NONE, TRUE, <<Item("text", PyInt(5))>>),
       ApiNode("2", "KSampler", TRUE, "TestNode", TRUE,
               <<Item("seed", PyInt(5)), Item("steps", PyInt(6))>>) >>

BareGui ==
    Gui(<< GuiNode(1, "TestNode", FALSE, <<>>),
           GuiNode(3, "KSampler", TRUE, <<PyInt(5)>>) >>,
        <<>>)

\* two nodes of one title, no display graph (gui_json=None)
TitledApi ==
    << ApiNode("1", "KSampler", TRUE, "Duplicate Title", TRUE, <<Item("seed", PyInt(5))>>),
       ApiNode("2", "KSampler", TRUE, "Duplicate Title", TRUE, <<Item("seed", PyInt(6))>>) >>

Workflows ==
    { [api |-> ImageApi, gui |-> ImageGui],
      [api |-> DupApi, gui |-> DupGui],
      [api |-> BareApi, gui |-> BareGui],
      [api |-> TitledApi, gui |-> GuiNone] }

\* inputs the callers are drawn from
ApiIds(api) == {api[i].id : i \in 1..Len(api)}
GuiIds(gui) == IF gui.is_none THEN {} ELSE {Str(gui.nodes[i].id) : i \in 1..Len(gui.nodes)}
ViewIds == ApiIds(api_json) \cup GuiIds(gui_json) \cup {"99"}
ParamNames == {"seed", "steps", "text", "model"}
SetValues == {PyInt(1), Conn(4, 0), PyList(<<1, 2, 3>>)}
Titles == ({api_json[i].title : i \in 1..Len(api_json)} \ {NONE}) \cup {"Missing"}
ClassTypes == {api_json[i].class_type : i \in 1..Len(api_json)} \cup {"Missing"}

(***************************************************************************)
(* State machine                                                           *)
(***************************************************************************)
NoArgs == [id |-> NONE, name |-> NONE, title |-> NONE, class_type |-> NONE,
           param |-> NONE, value |-> PyNone,
           data |-> <<>>, server |-> NoServer, with_workflow |-> FALSE]

Criteria(id, name, title, class_type) ==
    [NoArgs EXCEPT !.id = id, !.name = name, !.title = title, !.class_type = class_type]

\* node() calls that supply several criteria: the later ones match no node,
\* another node than the first one, or several nodes
SeveralCriteria ==
    { Criteria("99", NONE, NONE, "KSampler"),
      Criteria("1", "KSampler", "Missing", "Missing"),
      Criteria(NONE, "TestNode", "TestNode", NONE),
      Criteria(NONE, NONE, "Missing", "KSampler"),
      Criteria(NONE, NONE, "Sampler 1", "KSampler") }

\* the argument lists of the node() calls explored
NodeCriteria ==
    {Criteria(NONE, NONE, NONE, NONE)}
    \cup {Criteria(id, NONE, NONE, NONE) : id \in ViewIds}
    \cup {Criteria(NONE, c, NONE, NONE) : c \in ClassTypes}
    \cup {Criteria(NONE, NONE, t, NONE) : t \in Titles}
    \cup {Criteria(NONE, NONE, NONE, c) : c \in ClassTypes}
    \cup SeveralCriteria

NoOutcome == Outcome("none", <<>>, "none", NONE, <<>>)

\* the last call: its arguments, how it ended, the value it returned (reads),
\* the display slot it wrote (-1: none), whether it is a set() repeating the
\* set() made just before it, and what the workflow was loaded from
Record(op, args, out, val, slot, repeat) ==
    [op |-> op, args |-> args, out |-> out, val |-> val, slot |-> slot, repeat |-> repeat,
     source |-> "none"]

\* what the workflow in hand was loaded from, once the call is made: a
\* successful load decides it, every other call leaves it as it is
Source(op, args, out) ==
    IF op \in {"from_file", "from_image"} /\ out.exc = "none"
    THEN IF op = "from_image" THEN "image"
         ELSE IF ~(args.data.has_nodes /\ args.data.has_links) THEN "api"
         ELSE IF args.server.present THEN "standard, converted"
         ELSE "standard"
    ELSE last.source

Last(op, args, out, val, slot) ==
    [Record(op, args, out, val, slot, op = "set" /\ last.op = "set" /\ last.args = args)
        EXCEPT !.source = Source(op, args, out)]

Init ==
    /\ \E w \in Workflows : api_json = w.api /\ gui_json = w.gui
    /\ last = Record("init", NoArgs, NoOutcome, PyNone, -1, FALSE)
    /\ nsets = 0
    /\ loaded = TRUE
    /\ requests = <<>>
    /\ run = Idle
    /\ media = <<>>

\* Node(id, workflow).param(property_name).set(value)
SetBody(id, property_name, value) ==
    /\ LET api == ApiWrite(api_json, id, property_name, value)
           exc == SyncRaises(api, gui_json, id, property_name)
           slot == SyncSlot(api, gui_json, id, property_name)
       IN /\ api_json' = api
          /\ gui_json' = SyncGui(api, gui_json, id, property_name, value)
          /\ last' = Last("set",
                          [NoArgs EXCEPT !.id = id, !.param = property_name, !.value = value],
                          Outcome(exc, <<>>, "none", NONE, <<>>), PyNone,
                          IF exc = "none" THEN slot ELSE -1)
    /\ nsets' = nsets + 1
    /\ UNCHANGED remote

Set(id, property_name, value) ==
    /\ nsets < MaxSets
    /\ SetBody(id, property_name, value)

SetOnce(id, property_name, value) ==
    /\ nsets < MaxLookupSets
    /\ SetBody(id, property_name, value)

\* Node(id, workflow).param(property_name).value
Read(id, property_name) ==
    /\ last' = Last("get", [NoArgs EXCEPT !.id = id, !.param = property_name], NoOutcome,
                    get_property_value(api_json, id, property_name), -1)
    /\ UNCHANGED <<api_json, gui_json, nsets>>
    /\ UNCHANGED remote

\* workflow.node(id=..., name=..., title=..., class_type=...)
NodeCall(id, name, title, class_type) ==
    /\ last' = Last("node", Criteria(id, name, title, class_type),
                    node(api_json, id, name, title, class_type), PyNone, -1)
    /\ UNCHANGED <<api_json, gui_json, nsets>>
    /\ UNCHANGED remote

\* workflow.nodes(title=..., class_type=...)
NodesCall(title, class_type) ==
    /\ \E out \in nodes(api_json, title, class_type) :
          last' = Last("nodes", Criteria(NONE, NONE, title, class_type), out, PyNone, -1)
    /\ UNCHANGED <<api_json, gui_json, nsets>>
    /\ UNCHANGED remote

\* sequences of parameter writes through node views
Next ==
    \E id \in ViewIds, p \in ParamNames, v \in SetValues : Set(id, p, v)

Spec == Init /\ [][Next]_vars

\* reads and lookups, around parameter writes
NextLookup ==
    \/ \E id \in ViewIds, p \in ParamNames, v \in SetValues : SetOnce(id, p, v)
    \/ \E id \in ViewIds, p \in ParamNames : Read(id, p)
    \/ \E c \in NodeCriteria : NodeCall(c.id, c.name, c.title, c.class_type)
    \/ \E title \in Titles \cup {NONE}, ct \in ClassTypes \cup {NONE} : NodesCall(title, ct)

SpecLookup == Init /\ [][NextLookup]_vars

(***************************************************************************)
(* Loading and submitting: the workflow is made by a loader, edited and    *)
(* sent to the server.                                                     *)
(***************************************************************************)
\* the files, images and servers the callers are drawn from
Files ==
    { StandardFile(ImageGui), StandardFile(BareGui),
      ApiFile(ImageApi), ApiFile(TitledApi) }

Images ==
    { ImageData(hp, IF hp THEN ImageApi ELSE <<>>,
                hw, IF hw THEN ImageGui ELSE Gui(<<>>, <<>>)) : hp, hw \in BOOLEAN }

PromptIds == {"p1", "p2"}

\* the writes explored on a loaded workflow
LoadParamNames == {"seed", "steps", "text"}
LoadSetValues == {PyInt(1), Conn(4, 0)}

Servers ==
    { Server(a, c, ImageApi, s, p) :
        a \in BOOLEAN, c \in {"ok", "error"}, s \in {"ok", "error"}, p \in PromptIds }

\* no Workflow object yet
InitLoad ==
    /\ api_json = <<>>
    /\ gui_json = Gui(<<>>, <<>>)
    /\ last = Record("init", NoArgs, NoOutcome, PyNone, -1, FALSE)
    /\ nsets = 0
    /\ loaded = FALSE
    /\ requests = <<>>
    /\ run = Idle
    /\ media = <<>>

\* the call ended as r did: the workflow it made, the requests it sent
Load(op, args, r) ==
    /\ loaded' = (r.exc = "none")
    /\ api_json' = IF r.exc = "none" THEN r.api ELSE api_json
    /\ gui_json' = IF r.exc = "none" THEN r.gui ELSE gui_json
    /\ requests' = requests \o r.sent
    /\ last' = Last(op, args, Outcome(r.exc, <<>>, "none", NONE, <<>>), PyNone, -1)
    /\ UNCHANGED <<nsets, run, media>>

\* Workflow.from_file(file_path, server)
FromFile(data, server) ==
    /\ ~loaded
    /\ Len(requests) < MaxRequests
    /\ Load("from_file", [NoArgs EXCEPT !.data = data, !.server = server],
            from_file(data, server))

\* Workflow.from_image(file_path)
FromImage(image_data) ==
    /\ ~loaded
    /\ Load("from_image", [NoArgs EXCEPT !.data = image_data], from_image(image_data))

\* a parameter write on the loaded workflow
SetLoaded(id, property_name, value) ==
    /\ loaded
    /\ nsets < MaxLoadSets
    /\ SetBody(id, property_name, value)

\* workflow.execute(server)
Execute(server) ==
    /\ loaded
    /\ Len(requests) < MaxRequests
    /\ LET r == execute(api_json, server)
       IN /\ api_json' = r.api
          /\ requests' = requests \o r.sent
          /\ last' = Last("execute", [NoArgs EXCEPT !.server = server],
                          Outcome(r.exc, IF r.exc = "none" THEN <<r.ret>> ELSE <<>>,
                                  "none", NONE, <<>>),
                          PyNone, -1)
    /\ UNCHANGED <<gui_json, nsets, loaded, run, media>>

NextLoad ==
    \/ \E data \in Files, server \in Servers \cup {NoServer} : FromFile(data, server)
    \/ \E image_data \in Images : FromImage(image_data)
    \/ \E id \in ViewIds, p \in LoadParamNames, v \in LoadSetValues : SetLoaded(id, p, v)
    \/ \E server \in Servers : Execute(server)

SpecLoad == InitLoad /\ [][NextLoad]_vars

(***************************************************************************)
(* Submit-and-wait on the synchronous and on the cooperative path.         *)
(***************************************************************************)
\* a workflow with inputs, and one loaded from a standard file without a
\* server (no inputs yet: the submission converts it first)
RunWorkflows ==
    { [api |-> ImageApi, gui |-> ImageGui],
      [api |-> _create_minimal_api_from_gui(ImageGui), gui |-> ImageGui] }

PollIntervals == 1..MaxInterval
Timeouts == 0..MaxTimeout

\* the clock of the model stops here; no call waits this long
MaxClock == MaxTimeout + MaxInterval

\* the answers of the remote service to a status query
Replies ==
    { StatusReply(s, <<>>) : s \in {"pending", "running", "error", "request_failed"} }
    \cup { StatusReply("success", o) :
             o \in { <<>>,
                     << NodeOutput("31", << Image("a.png", "output"),
                                            Image("b.png", "temp") >>) >> } }

InitRun ==
    /\ \E w \in RunWorkflows : api_json = w.api /\ gui_json = w.gui
    /\ last = Record("init", NoArgs, NoOutcome, PyNone, -1, FALSE)
    /\ nsets = 0
    /\ loaded = TRUE
    /\ requests = <<>>
    /\ run = Idle
    /\ media = <<>>

\* server.execute(workflow) / await server.execute_async(workflow): the
\* submission; a failure here ends the call
Submit(mode, poll_interval, timeout, server) ==
    /\ run = Idle
    /\ LET s == execute(api_json, server)
       IN /\ api_json' = s.api
          /\ requests' = requests \o s.sent
          /\ run' = SubmitJob(mode, poll_interval, timeout, s)
          /\ last' = Last("submit", [NoArgs EXCEPT !.server = server],
                          Outcome(s.exc, <<>>, "none", NONE, <<>>), PyNone, -1)
    /\ UNCHANGED <<gui_json, nsets, loaded, media>>

\* one round of the polling loop of the call in flight
Poll(reply) ==
    /\ run.phase \in {"Submitted", "Polling"}
    /\ run.elapsed <= MaxClock
    /\ run' = PollOnce(run, reply)
    /\ requests' = requests \o PollRequests(run)
    /\ last' = Last("poll", [NoArgs EXCEPT !.data = reply], NoOutcome, PyNone, -1)
    /\ UNCHANGED <<api_json, gui_json, nsets, loaded, media>>

NextRun ==
    \/ \E mode \in {"sync", "async"}, i \in PollIntervals, t \in Timeouts, server \in Servers :
          Submit(mode, i, t, server)
    \/ \E reply \in Replies : Poll(reply)

\* every request is answered or times out (requests are made with a
\* timeout), so a loop that can make its next round does make it
SpecRun ==
    /\ InitRun
    /\ [][NextRun]_vars
    /\ WF_vars(\E reply \in Replies : Poll(reply))

(***************************************************************************)
(* Collecting the outputs of a job and looking artifacts up.               *)
(***************************************************************************)
\* the "outputs" of a history entry
Histories ==
    {<<>>}
    \cup { << NodeOutput(a, <<Image("a.png", "output")>>) >> : a \in ViewIds }
    \cup { << NodeOutput(a, <<Image("a.png", "output"), Image("b.png", "temp")>>),
              NodeOutput(b, <<Image("c.png", "output")>>) >> : a, b \in ViewIds }

\* the artifacts a caller makes itself
Artifacts ==
    { ComfyOutput("x.png", "output", n) : n \in {Node(id) : id \in ViewIds} \cup {NoNode} }

\* media = server.get_output_images(prompt_id, workflow)
GetOutputImages(outputs, with_workflow) ==
    /\ Len(requests) = 0
    /\ media' = get_output_images(outputs, with_workflow)
    /\ requests' = <<"GET /history">> \o [i \in 1..Len(media') |-> "GET /view"]
    /\ last' = Last("get_output_images",
                    [NoArgs EXCEPT !.data = outputs, !.with_workflow = with_workflow],
                    NoOutcome, PyNone, -1)
    /\ UNCHANGED <<api_json, gui_json, nsets, loaded, run>>

\* media.append(ComfyOutput(..., node=...))
AppendOutput(a) ==
    /\ Len(media) < MaxMedia
    /\ media' = Append(media, a)
    /\ last' = Last("append", [NoArgs EXCEPT !.data = <<a>>], NoOutcome, PyNone, -1)
    /\ UNCHANGED <<api_json, gui_json, nsets, loaded, requests, run>>

\* media[i].node.class_type and media[i].node.title
NodeProperties(i) ==
    /\ ~media[i].node.is_none
    /\ last' = Last("node_properties", [NoArgs EXCEPT !.id = media[i].node.id],
                    Outcome("none",
                            << Node_class_type(api_json, media[i].node.id),
                               Node_title(api_json, media[i].node.id) >>,
                            "none", NONE, <<>>),
                    PyNone, -1)
    /\ UNCHANGED <<api_json, gui_json, nsets, loaded, requests, run, media>>

\* media.find_by_title(title)
FindByTitle(title) ==
    /\ LET f == find_by_title(media, api_json, title)
       IN last' = Last("find_by_title", [NoArgs EXCEPT !.title = title],
                       Outcome(f.exc, f.ret, "title", title,
                               IF f.exc = "ValueError" THEN <<f.count>> ELSE <<>>),
                       PyNone, -1)
    /\ UNCHANGED <<api_json, gui_json, nsets, loaded, requests, run, media>>

NextMedia ==
    \/ \E o \in Histories, w \in BOOLEAN : GetOutputImages(o, w)
    \/ \E a \in Artifacts : AppendOutput(a)
    \/ \E i \in 1..Len(media) : NodeProperties(i)
    \/ \E t \in Titles \cup {""} : FindByTitle(t)

SpecMedia == Init /\ [][NextMedia]_vars

(***************************************************************************)
(* Vocabulary of the properties, stated without the operators above.       *)
(***************************************************************************)
\* the step is a set() call; its arguments are those recorded in last'
SetStep == last'.op = "set" /\ nsets' = nsets + 1

\* the step is a read
ReadStep == last'.op = "get" /\ UNCHANGED <<api_json, gui_json, nsets>>

\* the entry of node id (id is a key of api)
Entry(api, id) == api[CHOOSE i \in 1..Len(api) : api[i].id = id]

\* the inputs of node id as a function from its names
Names(api, id) ==
    IF Entry(api, id).has_inputs
    THEN {Entry(api, id).inputs[j].name : j \in 1..Len(Entry(api, id).inputs)}
    ELSE {}

ValueOf(api, id, name) ==
    LET ins == Entry(api, id).inputs
    IN ins[CHOOSE j \in 1..Len(ins) : ins[j].name = name].value

TwoElementList(value) == value.t = "list" /\ Len(value.items) = 2

\* name is a value input of node id: present and not a connection
IsValueInput(api, id, name) ==
    /\ name \in Names(api, id)
    /\ ~TwoElementList(ValueOf(api, id, name))

\* zero-based position of name among the value inputs of node id
Position(api, id, name) ==
    LET ins == Entry(api, id).inputs
        at == CHOOSE j \in 1..Len(ins) : ins[j].name = name
    IN Cardinality({j \in 1..(at - 1) : ~TwoElementList(ins[j].value)})

\* the display slot the offset rule assigns to position k
TargetSlot(api, id, k) ==
    IF Entry(api, id).class_type = "KSampler" /\ k > 0 THEN k + 1 ELSE k

\* the display node of node id exists
HasDisplayNode(gui, id) ==
    /\ ~gui.is_none
    /\ \E g \in 1..Len(gui.nodes) : Str(gui.nodes[g].id) = id

DisplayNode(gui, id) ==
    gui.nodes[CHOOSE g \in 1..Len(gui.nodes) :
                 /\ Str(gui.nodes[g].id) = id
                 /\ \A h \in 1..(g - 1) : Str(gui.nodes[h].id) # id]

\* a set() whose value reaches widgets_values: node and display node exist,
\* the display node has the field, the parameter is a value input afterwards
Synced(api, gui, id, p) ==
    /\ InApi(api, id)
    /\ HasDisplayNode(gui, id)
    /\ DisplayNode(gui, id).has_wv
    /\ IsValueInput(api, id, p)

(***************************************************************************)
(* C1: write-then-read.  For a node present in api_json, any parameter     *)
(* name (already in inputs or new) and any value v: after set(v) the       *)
(* entry api_json[id]["inputs"][name] is v, and a read of the parameter    *)
(* made right after the set returns v.                                     *)
(***************************************************************************)
C1_Stored ==
    (last.op = "set" /\ InApi(api_json, last.args.id)) =>
        /\ last.args.param \in Names(api_json, last.args.id)
        /\ ValueOf(api_json, last.args.id, last.args.param) = last.args.value

\* C1: every set() leaves the value stored, and a read right after it
\* returns that value
C1_WriteThenRead ==
    [][ /\ C1_Stored'
        /\ (last.op = "set" /\ ReadStep /\ last'.args.id = last.args.id
               /\ last'.args.param = last.args.param /\ InApi(api_json, last.args.id))
           => last'.val = last.args.value ]_vars

\* a read that returns the value just written under a new name
C1_Witness ==
    /\ last.op = "get" /\ last.val = PyInt(1) /\ last.args.id = "6"
    /\ last.args.param = "seed"

(***************************************************************************)
(* C2: offset rule.  When set() writes a parameter whose zero-based        *)
(* position among the node's value inputs is k, the display slot written   *)
(* is k+1 for a KSampler with k > 0 and k otherwise.                       *)
(***************************************************************************)
C2_OffsetRule ==
    [][ LET id == last'.args.id
            p == last'.args.param
        IN (SetStep /\ Synced(api_json', gui_json, id, p)) =>
             LET t == TargetSlot(api_json', id, Position(api_json', id, p))
             IN /\ last'.slot = t
                /\ DisplayNode(gui_json', id).widgets_values[t + 1] = last'.args.value ]_vars

\* KSampler, position 1 written at slot 2, and position 0 written at slot 0
C2_Witness ==
    /\ last.op = "set" /\ last.args.id = "31" /\ last.args.param = "steps"
    /\ last.slot = 2 /\ last.args.value = PyInt(1)
    /\ DisplayNode(gui_json, "31").widgets_values = <<PyInt(1), PyBool(FALSE), PyInt(1)>>

(***************************************************************************)
(* C3: a set() on an existing scalar parameter whose target display slot   *)
(* already exists changes that one slot only: the slot holds the value,    *)
(* every other slot keeps its value and the length is unchanged.           *)
(***************************************************************************)
C3_OneSlot ==
    [][ LET id == last'.args.id
            p == last'.args.param
        IN
          (/\ SetStep
           /\ InApi(api_json, id) /\ IsValueInput(api_json, id, p)
           /\ Synced(api_json', gui_json, id, p)
           /\ TargetSlot(api_json', id, Position(api_json', id, p))
                 < Len(DisplayNode(gui_json, id).widgets_values))
          => LET t == TargetSlot(api_json', id, Position(api_json', id, p))
                 old == DisplayNode(gui_json, id).widgets_values
                 new == DisplayNode(gui_json', id).widgets_values
             IN /\ Len(new) = Len(old)
                /\ new[t + 1] = last'.args.value
                /\ \A i \in 1..Len(old) : i # t + 1 => new[i] = old[i] ]_vars

\* the scenario of the specification: [seed, toggle, steps], steps written
C3_Witness ==
    /\ last.op = "set" /\ last.args.id = "31" /\ last.args.param = "steps"
    /\ nsets = 1
    /\ DisplayNode(gui_json, "31").widgets_values = <<PyInt(5), PyBool(FALSE), PyInt(1)>>

(***************************************************************************)
(* C4: connection immunity.  A two-element list input is not counted in    *)
(* the value-input order (the slot written is the offset of the number of  *)
(* non-connection inputs before the parameter), and a set() with a scalar  *)
(* value on another parameter leaves every connection-valued input of      *)
(* every node as it was.                                                   *)
(***************************************************************************)
C4_ConnectionImmunity ==
    [][ LET id == last'.args.id
            p == last'.args.param
        IN
          (SetStep /\ ~TwoElementList(last'.args.value)) =>
             /\ \A n \in ApiIds(api_json) : \A q \in Names(api_json, n) :
                   (TwoElementList(ValueOf(api_json, n, q)) /\ ~(n = id /\ q = p))
                   => /\ q \in Names(api_json', n)
                      /\ ValueOf(api_json', n, q) = ValueOf(api_json, n, q)
             /\ last'.slot >= 0 =>
                   last'.slot = TargetSlot(api_json', id,
                      Cardinality({j \in 1..Len(Entry(api_json', id).inputs) :
                          /\ j < (CHOOSE a \in 1..Len(Entry(api_json', id).inputs) :
                                     Entry(api_json', id).inputs[a].name = p)
                          /\ ~TwoElementList(Entry(api_json', id).inputs[j].value)})) ]_vars

\* two scalar writes behind a connection: the connection is intact and was
\* skipped in the count
C4_Witness ==
    /\ nsets = 2 /\ last.op = "set" /\ last.args.id = "6" /\ last.args.param = "text"
    /\ last.slot = 0 /\ ~TwoElementList(last.args.value)
    /\ ValueOf(api_json, "6", "clip") = Conn(4, 1)
    /\ Entry(api_json, "6").inputs[1].name = "clip"

(***************************************************************************)
(* C5: idempotence.  Applying the same set(v) a second time in a row to    *)
(* the same node and parameter changes neither api_json nor gui_json.      *)
(***************************************************************************)
C5_Idempotent ==
    [][ (last.op = "set" /\ SetStep /\ last'.args = last.args)
          => (api_json' = api_json /\ gui_json' = gui_json) ]_vars

\* a repeated set() of a new parameter that grew widgets_values
C5_Witness ==
    /\ last.op = "set" /\ last.repeat /\ last.slot = 1 /\ last.args.id = "6"
    /\ Len(DisplayNode(gui_json, "6").widgets_values) = 2

(***************************************************************************)
(* C10: best-effort sync.  When gui_json holds no display node with the    *)
(* id of the written node, set() raises nothing, stores the value in       *)
(* api_json and leaves gui_json unchanged.                                 *)
(***************************************************************************)
C10_BestEffort ==
    [][ LET id == last'.args.id
            p == last'.args.param
        IN (SetStep /\ InApi(api_json, id) /\ ~gui_json.is_none
              /\ ~HasDisplayNode(gui_json, id))
           => /\ last'.out.exc = "none"
              /\ gui_json' = gui_json
              /\ p \in Names(api_json', id)
              /\ ValueOf(api_json', id, p) = last'.args.value ]_vars

\* a write to a node the (non-empty) display graph does not hold
C10_Witness ==
    /\ last.op = "set" /\ last.args.id = "2" /\ last.out.exc = "none"
    /\ ~HasDisplayNode(gui_json, "2") /\ Len(gui_json.nodes) = 2
    /\ last.args.param = "steps" /\ ValueOf(api_json, "2", "steps") = PyInt(1)

(***************************************************************************)
(* Vocabulary of the lookup properties.                                    *)
(***************************************************************************)
\* ids of the nodes with the given class_type / title (a node without
\* _meta has no title)
WithClass(api, c) == {n \in ApiIds(api) : Entry(api, n).class_type = c}
WithTitle(api, t) == {n \in ApiIds(api) : Entry(api, n).has_meta /\ Entry(api, n).title = t}

\* the call supplied exactly one criterion
OneCriterion(a) ==
    Cardinality({f \in {"id", "name", "title", "class_type"} : a[f] # NONE}) = 1

\* ids matching the single criterion of the call
Matches(api, a) ==
    IF a.id # NONE THEN {n \in ApiIds(api) : n = a.id}
    ELSE IF a.name # NONE THEN WithClass(api, a.name)
    ELSE IF a.title # NONE THEN WithTitle(api, a.title)
    ELSE WithClass(api, a.class_type)

(***************************************************************************)
(* C6: Workflow.node() by one criterion returns a node only when exactly   *)
(* one node matches; no match raises KeyError; two or more raise           *)
(* ValueError whose message lists every matching id, and nothing is        *)
(* returned then.                                                          *)
(***************************************************************************)
C6_SingleLookup ==
    (last.op = "node" /\ OneCriterion(last.args)) =>
        LET m == Matches(api_json, last.args)
        IN /\ Cardinality(m) = 0 => (last.out.exc = "KeyError" /\ last.out.ret = <<>>)
           /\ Cardinality(m) = 1 => (last.out.exc = "none" /\ SeqToSet(last.out.ret) = m
                                       /\ Len(last.out.ret) = 1)
           /\ Cardinality(m) > 1 => /\ last.out.exc = "ValueError"
                                    /\ last.out.ret = <<>>
                                    /\ SeqToSet(last.out.msg_ids) = m

\* two nodes share the title: the error names both
C6_Witness ==
    /\ last.op = "node" /\ last.args.title = "Sampler 1"
    /\ last.out.exc = "ValueError" /\ last.out.msg_ids = <<"1", "3">>

(***************************************************************************)
(* C7: lookup equivalence.  For a node whose title and class_type are      *)
(* each unique, node(id=i), node(title=t), node(class_type=c) and          *)
(* node(name=c) all return a view of id i, and a value written through a   *)
(* view of that node is read back through each of them.                    *)
(***************************************************************************)
UniqueNode(api, n) ==
    /\ Entry(api, n).has_meta
    /\ WithTitle(api, Entry(api, n).title) = {n}
    /\ WithClass(api, Entry(api, n).class_type) = {n}

\* the four ways of asking for node n
WaysTo(api, n) ==
    { Criteria(n, NONE, NONE, NONE),
      Criteria(NONE, Entry(api, n).class_type, NONE, NONE),
      Criteria(NONE, NONE, Entry(api, n).title, NONE),
      Criteria(NONE, NONE, NONE, Entry(api, n).class_type) }

\* C7: the four lookups of a unique node agree on its id and read back
\* what was written to it
C7_LookupEquivalence ==
    \A n \in ApiIds(api_json) : UniqueNode(api_json, n) =>
        /\ \A a \in WaysTo(api_json, n) :
              LET r == node(api_json, a.id, a.name, a.title, a.class_type)
              IN /\ r.exc = "none" /\ r.ret = <<n>>
                 /\ (last.op = "set" /\ last.args.id = n) =>
                       get_property_value(api_json, r.ret[1], last.args.param)
                          = last.args.value
        /\ (last.op = "node" /\ last.args \in WaysTo(api_json, n)) =>
              (last.out.exc = "none" /\ last.out.ret = <<n>>)

\* the node written before is found by its title
C7_Witness ==
    /\ last.op = "node" /\ last.args.title = "Positive" /\ last.out.ret = <<"6">>
    /\ UniqueNode(api_json, "6")
    /\ nsets = 1 /\ get_property_value(api_json, "6", "text") = PyInt(1)

(***************************************************************************)
(* C8: union semantics.  nodes(title=T, class_type=C) returns views of     *)
(* exactly the ids whose title is T or whose class_type is C, each once,   *)
(* and returns the empty list, without error, when nothing matches.        *)
(***************************************************************************)
C8_Union ==
    (last.op = "nodes" /\ (last.args.title # NONE \/ last.args.class_type # NONE)) =>
        LET m == (IF last.args.title # NONE THEN WithTitle(api_json, last.args.title) ELSE {})
                 \cup (IF last.args.class_type # NONE
                       THEN WithClass(api_json, last.args.class_type) ELSE {})
        IN /\ last.out.exc = "none"
           /\ SeqToSet(last.out.ret) = m
           /\ Len(last.out.ret) = Cardinality(m)

\* title and class_type select different nodes: both are returned
C8_Witness ==
    /\ last.op = "nodes" /\ last.args.title = "TestNode" /\ last.args.class_type = "TestNode"
    /\ last.out.ret = <<"2", "1">>

\* no node matches the supplied criteria
C8_WitnessEmpty ==
    /\ last.op = "nodes" /\ last.args.title = "Missing" /\ last.args.class_type = "Missing"
    /\ last.out.exc = "none" /\ last.out.ret = <<>>

(***************************************************************************)
(* C9: nodes() with neither title nor class_type raises ValueError and     *)
(* changes neither api_json nor gui_json.                                  *)
(***************************************************************************)
C9_NoCriterion ==
    [][ (last'.op = "nodes" /\ last'.args.title = NONE /\ last'.args.class_type = NONE) =>
          /\ last'.out.exc = "ValueError"
          /\ last'.out.ret = <<>>
          /\ api_json' = api_json /\ gui_json' = gui_json ]_vars

\* the call is refused on a workflow that has been written to
C9_Witness ==
    /\ last.op = "nodes" /\ last.args.title = NONE /\ last.args.class_type = NONE
    /\ last.out.exc = "ValueError" /\ nsets = 1

(***************************************************************************)
(* C11: a workflow holding only api_json (gui_json = None) accepts         *)
(* parameter writes: set() on any of its nodes raises nothing and the      *)
(* value is stored in api_json.                                            *)
(***************************************************************************)
C11_AcceptsWrites ==
    (last.op = "set" /\ gui_json.is_none /\ InApi(api_json, last.args.id)) =>
        /\ last.out.exc = "none"
        /\ last.args.param \in Names(api_json, last.args.id)
        /\ ValueOf(api_json, last.args.id, last.args.param) = last.args.value

\* the write is stored, then the synchronisation raises on gui_json = None
C11_Witness ==
    /\ last.op = "set" /\ gui_json.is_none /\ last.args.id = "1"
    /\ last.args.param = "seed" /\ last.args.value = PyInt(1)
    /\ ValueOf(api_json, "1", "seed") = PyInt(1)
    /\ last.out.exc = "AttributeError"

(***************************************************************************)
(* C12: Node is a live view.  A read through any view returns what         *)
(* api_json holds for its id at that moment, a set() through any view of a *)
(* node stores its value in api_json, and nothing but a set() changes      *)
(* api_json: a set() through one view is seen by every later read through  *)
(* another view of the same id, whenever that view was made.               *)
(***************************************************************************)
\* what api_json holds for a parameter (None: node or parameter absent)
Held(api, id, p) ==
    IF InApi(api, id) /\ p \in Names(api, id) THEN ValueOf(api, id, p) ELSE PyNone

C12_LiveView ==
    [][ /\ ReadStep => last'.val = Held(api_json, last'.args.id, last'.args.param)
        /\ (SetStep /\ InApi(api_json, last'.args.id))
              => Held(api_json', last'.args.id, last'.args.param) = last'.args.value
        /\ ~SetStep => api_json' = api_json ]_vars

\* a read, after the write and a lookup, that returns the written value
C12_Witness ==
    /\ last.op = "get" /\ nsets = 1 /\ last.args.id = "31"
    /\ last.args.param = "steps" /\ last.val = PyInt(1)
    /\ Held(api_json, "31", "steps") = PyInt(1)

(***************************************************************************)
(* Vocabulary of the loading and submission properties.                    *)
(***************************************************************************)
\* number of requests of one kind in a log
Count(log, kind) == Cardinality({i \in 1..Len(log) : log[i] = kind})

\* api_json is None (no loader or call of core.py leaves it so): a mapping
\* with the one key None
ApiNone == <<ApiNode(NONE, NONE, FALSE, NONE, FALSE, <<>>)>>

IsNone(api) == api = ApiNone

\* no node of api has an input (an empty api included)
WithoutInputs(api) == \A n \in ApiIds(api) : Names(api, n) = {}

(***************************************************************************)
(* C13: loading from image metadata that holds neither "prompt" nor        *)
(* "workflow" fails with ValueError and produces no workflow.              *)
(***************************************************************************)
C13_NoMetadataFails ==
    (last.op = "from_image" /\ ~last.args.data.has_prompt /\ ~last.args.data.has_workflow)
        => (last.out.exc = "ValueError" /\ ~loaded)

\* the load returns a workflow with two empty representations
C13_Witness ==
    /\ last.op = "from_image" /\ ~last.args.data.has_prompt /\ ~last.args.data.has_workflow
    /\ last.out.exc = "none" /\ loaded
    /\ api_json = <<>> /\ gui_json = Gui(<<>>, <<>>)

(***************************************************************************)
(* C14: Workflow.from_file without a server fills only the representation  *)
(* of the file's format: a standard file ("nodes" and "links") gives       *)
(* gui_json set and api_json None, an API file gives api_json set and      *)
(* gui_json None.                                                          *)
(***************************************************************************)
C14_OnlyMatchingRepresentation ==
    (last.op = "from_file" /\ ~last.args.server.present) =>
        IF last.args.data.has_nodes /\ last.args.data.has_links
        THEN gui_json = last.args.data.gui /\ ~gui_json.is_none /\ IsNone(api_json)
        ELSE api_json = last.args.data.api /\ ~IsNone(api_json) /\ gui_json.is_none

\* an API file loaded without a server: gui_json holds a generated node per
\* api node
C14_Witness ==
    /\ last.op = "from_file" /\ ~last.args.server.present /\ ~last.args.data.has_nodes
    /\ api_json = TitledApi
    /\ ~gui_json.is_none /\ Len(gui_json.nodes) = 2
    /\ gui_json.nodes[2].widgets_values = <<PyInt(6)>>

\* a standard file loaded without a server: api_json holds a placeholder
\* entry per display node
C14_WitnessStandard ==
    /\ last.op = "from_file" /\ ~last.args.server.present /\ last.args.data.has_nodes
    /\ gui_json = ImageGui
    /\ ~IsNone(api_json) /\ ApiIds(api_json) = {"31", "6"} /\ WithoutInputs(api_json)

(***************************************************************************)
(* C15: Workflow.execute sends at most one job submission (POST /prompt)   *)
(* and no queue-status or history request; when it returns, it has sent    *)
(* exactly one submission, as its last request, and returns the prompt id  *)
(* of the response.                                                        *)
(***************************************************************************)
\* the step is an execute() call
ExecuteStep == last'.op = "execute" /\ requests' # requests /\ run' = run

\* requests of one kind sent by the step
Sent(kind) == Count(requests', kind) - Count(requests, kind)

C15_OneSubmission ==
    [][ ExecuteStep =>
          /\ Sent("POST /prompt") <= 1
          /\ Sent("GET /queue") = 0
          /\ Sent("GET /history") = 0
          /\ last'.out.exc = "none" =>
                /\ Sent("POST /prompt") = 1
                /\ requests'[Len(requests')] = "POST /prompt"
                /\ last'.out.ret = <<last'.args.server.prompt_id>> ]_vars

\* a workflow without inputs is converted, then submitted once
C15_Witness ==
    /\ last.op = "execute" /\ last.out.exc = "none" /\ last.out.ret = <<"p2">>
    /\ requests = <<"GET /system_stats", "POST /workflow/convert", "POST /prompt">>
    /\ api_json = ImageApi

(***************************************************************************)
(* Vocabulary of the submit-and-wait properties.                           *)
(***************************************************************************)
\* the step starts a submit-and-wait call
SubmitStep == last'.op = "submit" /\ run = Idle /\ run' # Idle

\* the step is a round of the polling loop
PollStep == last'.op = "poll" /\ run' # run

\* the call is in its polling loop / has ended after its submission
InFlight == run.phase \in {"Submitted", "Polling"}
Ended == run.phase \in {"Succeeded", "Failed", "TimedOut"}

\* the remote service fails the call before the job is accepted
FailsBeforeSubmission(api, server) ==
    \/ WithoutInputs(api) /\ (~server.available \/ server.convert = "error")
    \/ server.submit = "error"

(***************************************************************************)
(* C16: a failure before submission (server unavailable, conversion or     *)
(* submission request failing) is raised to the caller on the synchronous  *)
(* and on the cooperative path alike: no prompt id and no ExecutionResult  *)
(* is returned, and no status poll is made, then or later.                 *)
(***************************************************************************)
C16_RaisedBeforeSubmission ==
    [][ /\ (SubmitStep /\ FailsBeforeSubmission(api_json, last'.args.server)) =>
              /\ run'.raised \in {"ConnectionError", "RequestException"}
              /\ last'.out.exc = run'.raised
              /\ run'.prompt_id = NONE
              /\ run'.result.is_none
              /\ ~InFlight' /\ ~Ended'
              /\ Sent("GET /history") = 0
        /\ (run.phase = "Created" /\ run.raised # "none") => requests' = requests ]_vars

\* the cooperative path raises when the server is unavailable
C16_Witness ==
    /\ last.op = "submit" /\ run.mode = "async" /\ run.raised = "ConnectionError"
    /\ run.phase = "Created" /\ run.result.is_none
    /\ requests = <<"GET /system_stats">>

(***************************************************************************)
(* C17: on the cooperative path, once the job is submitted, an exception   *)
(* of the polling loop (timeout, failure reported by the remote service,   *)
(* failing status request) is never raised: the call returns an            *)
(* ExecutionResult with the submitted prompt id, status "error", the text  *)
(* of the exception as its non-empty error_message, and no media.          *)
(***************************************************************************)
\* the text of the exception the last round ended with
PollExceptionText ==
    IF run.phase = "TimedOut" THEN "Execution timed out"
    ELSE IF last.args.data.status = "error" THEN "Execution failed"
    ELSE "Request failed"

C17_CapturedIntoResult ==
    (last.op = "poll" /\ run.mode = "async") =>
        /\ run.raised = "none"
        /\ run.phase \in {"Failed", "TimedOut"} =>
              /\ ~run.result.is_none
              /\ run.result.prompt_id = run.prompt_id
              /\ run.result.prompt_id \in PromptIds
              /\ run.result.status = "error"
              /\ run.result.error_message = PollExceptionText
              /\ run.result.error_message # ""
              /\ run.result.media = <<>>

\* the remote service reports a failure to a cooperative call
C17_Witness ==
    /\ last.op = "poll" /\ run.mode = "async" /\ run.phase = "Failed"
    /\ last.args.data.status = "error"
    /\ run.result.status = "error" /\ run.result.error_message = "Execution failed"
    /\ run.result.prompt_id = "p1" /\ run.raised = "none"

(***************************************************************************)
(* C18: the synchronous polling loop always terminates: a call in flight   *)
(* ends, by a terminal status or by the timeout; a round made when the     *)
(* timeout has elapsed raises ExecutionTimeout without a status request,   *)
(* and an ended call sends nothing more.                                   *)
(***************************************************************************)
C18_Terminates ==
    /\ (run.mode = "sync" /\ InFlight) ~> (run.mode = "sync" /\ Ended)
    /\ [][ /\ (PollStep /\ run.mode = "sync" /\ run.elapsed >= run.timeout) =>
                 /\ run'.phase = "TimedOut"
                 /\ run'.raised = "ExecutionTimeout"
                 /\ requests' = requests
           /\ (PollStep /\ run.mode = "sync" /\ run'.phase = "Polling") =>
                 /\ run.elapsed < run.timeout
                 /\ run'.elapsed > run.elapsed
           /\ Ended => (run' = run /\ requests' = requests) ]_vars

\* a synchronous call that polled twice, then timed out
C18_Witness ==
    /\ run.mode = "sync" /\ run.phase = "TimedOut" /\ run.raised = "ExecutionTimeout"
    /\ run.timeout = 2 /\ run.poll_interval = 1 /\ run.elapsed = 2
    /\ Count(requests, "GET /history") = 2

(***************************************************************************)
(* Vocabulary of the output properties.                                    *)
(***************************************************************************)
\* the image descriptors of the history entries before entry k
ImagesBefore(outputs, k) ==
    Cardinality(UNION { {<<a, b>> : b \in 1..Len(outputs[a].images)} : a \in 1..(k - 1) })

\* the title of node id in api ("": node absent, or without a title)
TitleOf(api, id) ==
    IF id \in ApiIds(api) /\ Entry(api, id).has_meta /\ Entry(api, id).title # NONE
    THEN Entry(api, id).title
    ELSE ""

(***************************************************************************)
(* C19: output collection makes one artifact per image descriptor and      *)
(* attaches node references by three cases: with a workflow that holds     *)
(* the node id, a view of that node (its id, its class_type); with a       *)
(* workflow that lacks the id, a view of that id whose class_type is       *)
(* empty; without a workflow, no node (None).                              *)
(***************************************************************************)
C19_NodeReferences ==
    /\ last.op = "get_output_images" =>
          LET o == last.args.data
          IN /\ Len(media) = ImagesBefore(o, Len(o) + 1)
             /\ \A k \in 1..Len(o) : \A j \in 1..Len(o[k].images) :
                   LET a == media[ImagesBefore(o, k) + j]
                   IN /\ a.filename = o[k].images[j].filename
                      /\ a.type = o[k].images[j].type
                      /\ IF last.args.with_workflow
                         THEN ~a.node.is_none /\ a.node.id = o[k].node_id
                         ELSE a.node.is_none
    /\ last.op = "node_properties" =>
          last.out.ret[1] = IF last.args.id \in ApiIds(api_json)
                            THEN Entry(api_json, last.args.id).class_type
                            ELSE ""

\* the class_type read from the node of an artifact of node "99", which the
\* workflow lacks
C19_Witness ==
    /\ last.op = "node_properties" /\ last.args.id = "99" /\ last.out.ret[1] = ""
    /\ Len(media) = 3 /\ media[1].filename = "a.png" /\ media[3].filename = "c.png"
    /\ media[1].node = Node("99") /\ media[3].node = Node("31")
    /\ "31" \in ApiIds(api_json) /\ "99" \notin ApiIds(api_json)

(***************************************************************************)
(* C20: MediaCollection.find_by_title(t) returns an artifact only when     *)
(* exactly one artifact has a node whose title is t, and then that         *)
(* artifact; no such artifact raises KeyError, two or more raise           *)
(* ValueError; an artifact without a node never counts.                    *)
(***************************************************************************)
\* positions of the artifacts with a node of title t
Titled(t) ==
    {i \in 1..Len(media) : ~media[i].node.is_none /\ TitleOf(api_json, media[i].node.id) = t}

C20_FindByTitle ==
    last.op = "find_by_title" =>
        LET hits == Titled(last.args.title)
        IN /\ Cardinality(hits) = 1 =>
                 /\ last.out.exc = "none"
                 /\ last.out.ret = <<media[CHOOSE i \in hits : TRUE]>>
           /\ Cardinality(hits) = 0 => (last.out.exc = "KeyError" /\ last.out.ret = <<>>)
           /\ Cardinality(hits) >= 2 =>
                 /\ last.out.exc = "ValueError"
                 /\ last.out.ret = <<>>
                 /\ last.out.msg_ids = <<Cardinality(hits)>>

\* the one titled artifact is found behind an artifact without a node
C20_Witness ==
    /\ last.op = "find_by_title" /\ last.args.title = "Positive"
    /\ Len(media) = 2 /\ media[1].node.is_none /\ media[2].node = Node("6")
    /\ last.out.exc = "none" /\ last.out.ret = <<media[2]>>

\* two artifacts of nodes with one title
C20_WitnessAmbiguous ==
    /\ last.op = "find_by_title" /\ last.args.title = "Duplicate Title"
    /\ Len(media) = 2 /\ media[1].node = Node("1") /\ media[2].node = Node("2")
    /\ last.out.exc = "ValueError" /\ last.out.msg_ids = <<2>>

(***************************************************************************)
(* C21: a set() on a name that is not among the node's inputs appends the  *)
(* name at the end of inputs, and the sync uses the order computed after   *)
(* the insertion: the position of the name among the value inputs is the   *)
(* number of non-connection inputs after the insertion minus one, and the  *)
(* display slot derived from that position holds the value.                *)
(***************************************************************************)
C21_NewKeySync ==
    [][ LET id == last'.args.id
            p == last'.args.param
        IN (SetStep /\ InApi(api_json, id) /\ p \notin Names(api_json, id)) =>
             LET old == IF Entry(api_json, id).has_inputs
                        THEN Entry(api_json, id).inputs ELSE <<>>
                 new == Entry(api_json', id).inputs
                 k == Cardinality({j \in 1..Len(new) : ~TwoElementList(new[j].value)}) - 1
                 t == TargetSlot(api_json', id, k)
             IN /\ Len(new) = Len(old) + 1
                /\ new[Len(new)].name = p
                /\ \A j \in 1..Len(old) : new[j] = old[j]
                /\ Synced(api_json', gui_json, id, p) =>
                      /\ Position(api_json', id, p) = k
                      /\ last'.slot = t
                      /\ DisplayNode(gui_json', id).widgets_values[t + 1]
                            = last'.args.value ]_vars

\* "seed" is new on node 6 (clip, text): position 1 of 2 value inputs, slot 1
C21_Witness ==
    /\ last.op = "set" /\ last.args.id = "6" /\ last.args.param = "seed"
    /\ nsets = 1 /\ last.slot = 1
    /\ Names(api_json, "6") = {"clip", "text", "seed"}
    /\ DisplayNode(gui_json, "6").widgets_values = <<PyInt(5), PyInt(1)>>

(***************************************************************************)
(* C22: slot growth.  With n the length of the display node's              *)
(* widgets_values before a set() and t the target slot: when t >= n the    *)
(* length afterwards is exactly t+1, slots 0..n-1 keep their values, slots *)
(* n..t-1 hold None and slot t holds the value; when t < n the length is   *)
(* unchanged.                                                              *)
(***************************************************************************)
C22_SlotGrowth ==
    [][ LET id == last'.args.id
            p == last'.args.param
        IN (SetStep /\ Synced(api_json', gui_json, id, p)) =>
             LET t == TargetSlot(api_json', id, Position(api_json', id, p))
                 old == DisplayNode(gui_json, id).widgets_values
                 new == DisplayNode(gui_json', id).widgets_values
                 n == Len(old)
             IN IF t >= n
                THEN /\ Len(new) = t + 1
                     /\ \A i \in 1..n : new[i] = old[i]
                     /\ \A i \in (n + 1)..t : new[i] = PyNone
                     /\ new[t + 1] = last'.args.value
                ELSE Len(new) = n ]_vars

\* KSampler node 2, widgets_values [6]: "steps" is new, position 1, slot 2;
\* slot 1 is created and holds None
C22_Witness ==
    /\ last.op = "set" /\ last.args.id = "2" /\ last.args.param = "steps"
    /\ nsets = 1 /\ last.slot = 2
    /\ HasDisplayNode(gui_json, "2")
    /\ DisplayNode(gui_json, "2").widgets_values = <<PyInt(6), PyNone, PyInt(1)>>

\* the names of a sequence of inputs that belong to the set keep, in order
NamesAmong(inputs, keep) ==
    LET kept == SelectSeq(inputs, LAMBDA e : e.name \in keep)
    IN [j \in 1..Len(kept) |-> kept[j].name]

\* the input names of node id in order (none when it has no inputs)
NameOrder(api, id) ==
    IF Entry(api, id).has_inputs
    THEN [j \in 1..Len(Entry(api, id).inputs) |-> Entry(api, id).inputs[j].name]
    ELSE <<>>

(***************************************************************************)
(* C23: frame of set() on api_json.  A set() on parameter p of node N      *)
(* changes api_json[N]["inputs"][p] only: the node ids and their order,    *)
(* every other node's entry, N's class_type and _meta, the values of N's   *)
(* other inputs and the relative order of the names N had before are       *)
(* unchanged, at every set() of a sequence.                                *)
(***************************************************************************)
C23_ApiFrame ==
    [][ LET id == last'.args.id
            p == last'.args.param
        IN SetStep =>
             /\ Len(api_json') = Len(api_json)
             /\ \A i \in 1..Len(api_json) :
                   /\ api_json'[i].id = api_json[i].id
                   /\ api_json'[i].class_type = api_json[i].class_type
                   /\ api_json'[i].has_meta = api_json[i].has_meta
                   /\ api_json'[i].title = api_json[i].title
                   /\ api_json[i].id # id => api_json'[i] = api_json[i]
             /\ InApi(api_json, id) =>
                   /\ Names(api_json', id) = Names(api_json, id) \cup {p}
                   /\ \A q \in Names(api_json, id) \ {p} :
                         ValueOf(api_json', id, q) = ValueOf(api_json, id, q)
                   /\ NamesAmong(Entry(api_json', id).inputs, Names(api_json, id))
                         = NameOrder(api_json, id) ]_vars

\* two writes on node 31: the second one changes "seed" only, "steps" keeps
\* the value of the first one and node 6 is as loaded
C23_Witness ==
    /\ last.op = "set" /\ last.args.id = "31" /\ last.args.param = "seed"
    /\ nsets = 2
    /\ InApi(api_json, "31") /\ InApi(api_json, "6")
    /\ NameOrder(api_json, "31") = <<"seed", "model", "steps">>
    /\ ValueOf(api_json, "31", "seed") = Conn(4, 0)
    /\ ValueOf(api_json, "31", "steps") = PyInt(1)
    /\ ValueOf(api_json, "31", "model") = Conn(4, 0)
    /\ Entry(api_json, "6") = ImageApi[2]

(***************************************************************************)
(* C24: frame of set() on gui_json.  A set() on node N changes nothing in  *)
(* the display graph but the widgets_values of the display node whose id   *)
(* matches N: the links, every other display node and the other fields of  *)
(* the matching display node (id, type, pos, size, inputs, outputs) are    *)
(* unchanged.                                                              *)
(***************************************************************************)
C24_GuiFrame ==
    [][ SetStep =>
          /\ gui_json'.is_none = gui_json.is_none
          /\ gui_json'.links = gui_json.links
          /\ Len(gui_json'.nodes) = Len(gui_json.nodes)
          /\ \A g \in 1..Len(gui_json.nodes) :
                LET old == gui_json.nodes[g]
                    new == gui_json'.nodes[g]
                IN /\ [new EXCEPT !.widgets_values = old.widgets_values] = old
                   /\ Str(old.id) # last'.args.id => new = old ]_vars

\* a write on node 31 that reaches its widgets_values: display node 6, the
\* links and the other fields of display node 31 are as loaded
C24_Witness ==
    /\ last.op = "set" /\ last.args.id = "31" /\ last.args.param = "steps"
    /\ nsets = 1 /\ last.slot = 2
    /\ gui_json.links = ImageGui.links
    /\ gui_json.nodes[2] = ImageGui.nodes[2]
    /\ gui_json.nodes[1].widgets_values # ImageGui.nodes[1].widgets_values
    /\ [gui_json.nodes[1] EXCEPT !.widgets_values = ImageGui.nodes[1].widgets_values]
          = ImageGui.nodes[1]

\* the values of the value inputs of node id, in input order
ValueInputs(api, id) ==
    LET ins == IF Entry(api, id).has_inputs THEN Entry(api, id).inputs ELSE <<>>
        kept == SelectSeq(ins, LAMBDA e : ~TwoElementList(e.value))
    IN [j \in 1..Len(kept) |-> kept[j].value]

\* every display node shows the value inputs of its node, in input order
Consistent(api, gui) ==
    /\ ~gui.is_none
    /\ \A g \in 1..Len(gui.nodes) :
          InApi(api, Str(gui.nodes[g].id)) =>
             /\ gui.nodes[g].has_wv
             /\ gui.nodes[g].widgets_values = ValueInputs(api, Str(gui.nodes[g].id))

\* the last call loaded the workflow from a file in the API format
FromApiFile(call) ==
    /\ call.op = "from_file" /\ call.out.exc = "none"
    /\ ~(call.args.data.has_nodes /\ call.args.data.has_links)

(***************************************************************************)
(* C25: representation consistency.  A workflow loaded by from_file from   *)
(* a file in the API format has, for nodes of every class_type, each       *)
(* display node's widgets_values equal to the values of the node's value   *)
(* inputs in input order, and a set() of a scalar on one of its value      *)
(* inputs keeps it so.                                                     *)
(***************************************************************************)
C25_RepresentationConsistency ==
    [][ /\ FromApiFile(last') => Consistent(api_json', gui_json')
        /\ (/\ FromApiFile(last) /\ SetStep
            /\ InApi(api_json, last'.args.id)
            /\ IsValueInput(api_json, last'.args.id, last'.args.param)
            /\ last'.args.value.t # "list")
           => Consistent(api_json', gui_json') ]_vars

\* loaded from the API file with KSampler 31 (seed, model, steps), then
\* "steps" written: inputs hold [5, 1], widgets_values hold [5, 6, 1]
C25_Witness ==
    /\ last.op = "set" /\ last.args.id = "31" /\ last.args.param = "steps"
    /\ nsets = 1 /\ last.slot = 2
    /\ ValueInputs(api_json, "31") = <<PyInt(5), PyInt(1)>>
    /\ DisplayNode(gui_json, "31").has_title
    /\ DisplayNode(gui_json, "31").widgets_values = <<PyInt(5), PyInt(6), PyInt(1)>>

\* the display slot a set() of a scalar on value input q of node id writes
SlotOf(api, id, q) == TargetSlot(api, id, Position(api, id, q))

(***************************************************************************)
(* C26: slot stability.  For distinct parameters p and q of one node, a    *)
(* set() on p with any value, scalar or two-element list, leaves the       *)
(* display slot at which a later set() on q writes as it was.              *)
(***************************************************************************)
C26_SlotStability ==
    [][ LET id == last'.args.id
            p == last'.args.param
        IN (SetStep /\ InApi(api_json, id)) =>
             \A q \in Names(api_json, id) \ {p} :
                IsValueInput(api_json, id, q) =>
                   SlotOf(api_json', id, q) = SlotOf(api_json, id, q) ]_vars

\* node 31 (seed, model, steps): "steps" is written at slot 2; after "seed"
\* is set to a two-element list, the set() on "steps" writes slot 0
C26_Witness ==
    /\ last.op = "set" /\ last.args.id = "31" /\ last.args.param = "steps"
    /\ nsets = 2 /\ last.slot = 0
    /\ SlotOf(ImageApi, "31", "steps") = 2
    /\ ValueOf(api_json, "31", "seed") = Conn(4, 0)
    /\ DisplayNode(gui_json, "31").widgets_values = <<PyInt(1), PyBool(FALSE), PyInt(6)>>

(***************************************************************************)
(* C27: atomicity of set() on error.  Whenever set() raises (the display   *)
(* graph is absent, or the matching display node has no widgets_values)    *)
(* api_json is left as it was before the call.                             *)
(***************************************************************************)
C27_AtomicOnError ==
    [][ (SetStep /\ last'.out.exc # "none") => api_json' = api_json ]_vars

\* the display node of node 1 has no widgets_values: the set() has raised
\* KeyError and the value is stored in api_json
C27_Witness ==
    /\ last.op = "set" /\ last.out.exc = "KeyError"
    /\ last.args.id = "1" /\ last.args.param = "text" /\ last.args.value = PyInt(1)
    /\ nsets = 1
    /\ ValueOf(api_json, "1", "text") = PyInt(1)
    /\ ~DisplayNode(gui_json, "1").has_wv

\* the workflow in hand was loaded from a standard file without a server
\* and no conversion has been asked for since
Unconverted ==
    /\ last.source = "standard"
    /\ Count(requests, "POST /workflow/convert") = 0

(***************************************************************************)
(* C28: conversion precedes submission.  For a workflow loaded from a      *)
(* standard file without a server, execute() submits nothing but the graph *)
(* the server converted the display graph into, whatever parameter writes  *)
(* were made between the load and the execute().                           *)
(***************************************************************************)
C28_ConversionPrecedesSubmission ==
    [][ (ExecuteStep /\ Unconverted /\ Sent("POST /prompt") > 0) =>
           /\ Sent("POST /workflow/convert") = 1
           /\ api_json' = last'.args.server.converted ]_vars

\* loaded from a standard file without a server, "seed" written on node 31,
\* then executed: the one request is the submission of the placeholder
C28_Witness ==
    /\ last.op = "execute" /\ last.source = "standard" /\ last.out.exc = "none"
    /\ nsets = 1
    /\ requests = <<"POST /prompt">>
    /\ ApiIds(api_json) = {"31", "6"}
    /\ Names(api_json, "31") = {"seed"} /\ Names(api_json, "6") = {}
    /\ Entry(api_json, "31").title = ""

(***************************************************************************)
(* C29: a Node view whose id is not a key of api_json is inert.  A set()   *)
(* on it changes neither api_json nor gui_json, also when gui_json has a   *)
(* display node of that id, and a read of the parameter made after it      *)
(* returns None.                                                           *)
(***************************************************************************)
C29_PlaceholderInert ==
    [][ /\ (SetStep /\ ~InApi(api_json, last'.args.id)) =>
              /\ api_json' = api_json
              /\ gui_json' = gui_json
              /\ last'.slot = -1
        /\ (/\ last.op = "set" /\ ~InApi(api_json, last.args.id)
            /\ ReadStep
            /\ last'.args.id = last.args.id /\ last'.args.param = last.args.param)
           => last'.val = PyNone ]_vars

\* node 3 has a display node and no entry in api_json: after the set() both
\* representations are as they were
C29_Witness ==
    /\ last.op = "set" /\ last.args.id = "3" /\ last.args.param = "seed"
    /\ last.out.exc = "none" /\ nsets = 1
    /\ ~InApi(api_json, "3") /\ HasDisplayNode(gui_json, "3")
    /\ api_json = BareApi /\ gui_json = BareGui

\* the first criterion a node() call supplies, in the order id, name, title,
\* class_type ("none": it supplies none)
FirstSupplied(a) ==
    IF a.id # NONE THEN "id"
    ELSE IF a.name # NONE THEN "name"
    ELSE IF a.title # NONE THEN "title"
    ELSE IF a.class_type # NONE THEN "class_type"
    ELSE "none"

\* the call that supplies the first criterion of a and no other
Alone(a) == [NoArgs EXCEPT ![FirstSupplied(a)] = a[FirstSupplied(a)]]

SeveralSupplied(a) ==
    Cardinality({f \in {"id", "name", "title", "class_type"} : a[f] # NONE}) > 1

(***************************************************************************)
(* C30: criterion precedence of Workflow.node().  When several criteria    *)
(* are supplied, the first supplied one in the order id, name, title,      *)
(* class_type decides the result or the error as if it were supplied       *)
(* alone, whatever the later ones match; with no criterion ValueError is   *)
(* raised.                                                                 *)
(***************************************************************************)
C30_CriterionPrecedence ==
    (last.op = "node") =>
        IF FirstSupplied(last.args) = "none"
        THEN last.out.exc = "ValueError" /\ last.out.ret = <<>>
        ELSE LET m == Matches(api_json, Alone(last.args))
             IN /\ Cardinality(m) = 0 => (last.out.exc = "KeyError" /\ last.out.ret = <<>>)
                /\ Cardinality(m) = 1 => /\ last.out.exc = "none"
                                         /\ Len(last.out.ret) = 1
                                         /\ SeqToSet(last.out.ret) = m
                /\ Cardinality(m) > 1 => /\ last.out.exc = "ValueError"
                                         /\ last.out.ret = <<>>
                                         /\ SeqToSet(last.out.msg_ids) = m

\* name and title are supplied and match different nodes: the node of the
\* name is returned
C30_Witness ==
    /\ last.op = "node" /\ SeveralSupplied(last.args)
    /\ last.args.name = "TestNode" /\ last.args.title = "TestNode"
    /\ WithClass(api_json, "TestNode") = {"1"}
    /\ WithTitle(api_json, "TestNode") = {"2"}
    /\ last.out.exc = "none" /\ last.out.ret = <<"1">>

=============================================================================
